---- MODULE Spec2Model ----
(***************************************************************************)
(* Model of inject_mock_data.py: a script that exchanges an API key for a  *)
(* bearer token, creates three Cloudant databases, generates and bulk      *)
(* inserts mock customer / procurement / revenue documents, declares three *)
(* indexes and runs three example queries.                                 *)
(*                                                                         *)
(* Numbers the script rounds to a fixed number of decimals are kept as     *)
(* integers in that unit: usage_drop in hundredths, sentiment_score in     *)
(* tenths, churn_score / probability_of_churn / renewal_probability in     *)
(* thousandths, arr_at_risk / mrr in cents.  Dates are day offsets from    *)
(* datetime.now().                                                         *)
(***************************************************************************)
EXTENDS Integers, Sequences, FiniteSets

VARIABLES pc, raised, iam_token, token_response, dbs, requests, response, report,
          ret, customers, procurements, revenues, num_records

vars == <<pc, raised, iam_token, token_response, dbs, requests, response, report,
          ret, customers, procurements, revenues, num_records>>

-----------------------------------------------------------------------------
(* Bounds of the model *)

\* number of documents main() asks each generator for (500 in the script)
NumRecords == 2

\* largest count handed to the generators when they are run on their own
MaxCount == 5

\* largest number of consecutive create_database calls that are explored
MaxCalls == 4

\* largest num_impacted drawn for a procurement record (15 in the script)
MaxImpacted == 2

-----------------------------------------------------------------------------
(* Helpers *)

Min(a, b) == IF a < b THEN a ELSE b

Range(s) == {s[k] : k \in 1..Len(s)}

NoDuplicates(s) == \A a, b \in 1..Len(s) : a # b => s[a] # s[b]

RECURSIVE Digits(_)
\* decimal digits of k, most significant first
Digits(k) == IF k < 10 THEN <<k>> ELSE Append(Digits(k \div 10), k % 10)

RECURSIVE ZeroPad(_, _)
ZeroPad(ds, width) == IF Len(ds) >= width THEN ds ELSE ZeroPad(<<0>> \o ds, width)

\* the format spec ":04d": at least 4 digits, padded on the left with zeros
Fmt04d(k) == ZeroPad(Digits(k), 4)

\* round(n / d) for integers n >= 0, d > 0: ties go to the even neighbour
RoundDiv(n, d) ==
    LET q == n \div d
        r == n % d
    IN  IF 2 * r < d THEN q
        ELSE IF 2 * r > d THEN q + 1
        ELSE IF q % 2 = 0 THEN q ELSE q + 1

-----------------------------------------------------------------------------
(* Database names *)

DATABASES == [customers   |-> "customer_table",
              procurement |-> "procurement_table",
              revenue     |-> "revenue_table"]

\* DATABASES.values() in insertion order
DatabaseValues == <<DATABASES.customers, DATABASES.procurement, DATABASES.revenue>>

-----------------------------------------------------------------------------
(* generate_customer_data *)

\* f"customer_{k:04d}"
CustomerId(k) == <<"customer", Fmt04d(k)>>

\* churn_factors in thousandths: usage_drop*0.4 + (10-sentiment)/10*0.3
\*                               + min(tickets,30)/30*0.3
ChurnFactors(usage_drop, sentiment, tickets) ==
    4 * usage_drop + 3 * (100 - sentiment) + 10 * Min(tickets, 30)

\* round(min(churn_factors, 1.0), 3)
ChurnScore(usage_drop, sentiment, tickets) ==
    Min(ChurnFactors(usage_drop, sentiment, tickets), 1000)

AccountStatusAtRiskAbove(churn_score) ==
    IF churn_score <= 700 THEN "active" ELSE "at_risk"

\* "active" if churn_score < 0.7 else "at_risk"
AccountStatus(churn_score) ==
    IF churn_score < 700 THEN "active" ELSE "at_risk"

\* the ranges the random draws of one customer come from
UsageDropRange == 0..80
SentimentRange == 10..100
TicketRange    == 0..50

\* one iteration of the loop, for loop variable i and the values drawn
Customer(i, d) ==
    LET churn_score == ChurnScore(d.usage_drop, d.sentiment, d.tickets)
    IN  [id              |-> CustomerId(i + 1),
         customer_name   |-> <<d.name, i + 1>>,
         usage_drop      |-> d.usage_drop,
         sentiment_score |-> d.sentiment,
         ticket_volume   |-> d.tickets,
         arr             |-> d.arr,
         churn_score     |-> churn_score,
         last_updated    |-> 0,
         account_status  |-> AccountStatus(churn_score)]

\* generate_customer_data(n) when draws[i+1] is what iteration i draws
GenerateCustomerData(n, draws) == [k \in 1..n |-> Customer(k - 1, draws[k])]

\* draws used when the whole script runs: one clearly active customer, one
\* exactly on the 0.7 threshold
CustomerDrawSamples ==
    { [usage_drop |-> 0,  sentiment |-> 100, tickets |-> 0,  arr |-> 10000,  name |-> "Acme Corp"],
      [usage_drop |-> 80, sentiment |-> 10,  tickets |-> 11, arr |-> 500000, name |-> "Fusion Inc"] }

-----------------------------------------------------------------------------
(* generate_procurement_data *)

ProcurementId(k) == <<"procurement", Fmt04d(k)>>

ProcurementStatusFrom7(delay) == IF delay >= 7 THEN "delayed" ELSE "on_time"

\* "delayed" if delay > 7 else "on_time"
ProcurementStatus(delay) == IF delay > 7 THEN "delayed" ELSE "on_time"

\* "high" if delay > 20 else "medium" if delay > 7 else "low"
ImpactSeverity(delay) ==
    IF delay > 20 THEN "high" ELSE IF delay > 7 THEN "medium" ELSE "low"

DelayRange == 0..45

\* customer numbers the impacted-customer draw is sampled from
\* (random.randint(1, 500))
ImpactedSamples == {1, 500}

\* the lists list(set(xs)) can return: the elements of xs once each, in an
\* order the set implementation picks
ListOfSet(xs) ==
    {s \in UNION {[1..m -> Range(xs)] : m \in 0..Len(xs)} :
        Range(s) = Range(xs) /\ NoDuplicates(s)}

Procurement(i, d, impact_list) ==
    [id                   |-> ProcurementId(i + 1),
     vendor_name          |-> d.vendor,
     order_id             |-> <<"PO-2024", d.order>>,
     vendor_deliveries    |-> d.deliveries,
     delay_days           |-> d.delay,
     customer_impact_list |-> impact_list,
     delivery_date        |-> 0 - d.delay,
     expected_date        |-> 0 - d.expected,
     status               |-> ProcurementStatus(d.delay),
     impact_severity      |-> ImpactSeverity(d.delay)]

\* the list comprehension of lines 115-116 for the customer numbers drawn
ImpactedCustomers(impacted) == [j \in 1..Len(impacted) |-> CustomerId(impacted[j])]

\* every list the draws of ImpactedSamples can be deduplicated to
ImpactLists ==
    UNION {ListOfSet(ImpactedCustomers(xs)) :
              xs \in UNION {[1..m -> ImpactedSamples] : m \in 0..MaxImpacted}}

\* generate_procurement_data(n) when draws[i+1] is what iteration i draws and
\* lists[i+1] is the list its list(set(...)) returns
GenerateProcurementData(n, draws, lists) ==
    [k \in 1..n |-> Procurement(k - 1, draws[k], lists[k])]

\* the values one iteration can draw, for the given delays
ProcurementDraws(delays) ==
    [delay : delays,
     impacted : UNION {[1..m -> ImpactedSamples] : m \in 0..MaxImpacted},
     vendor : {"CloudProvider A"}, order : {1000}, deliveries : {1}, expected : {0}]

\* draws used when the whole script runs: an on-time order without impact and
\* a late one that draws the same customer twice
ProcurementDrawSamples ==
    { [delay |-> 7,  impacted |-> <<>>,     vendor |-> "CloudProvider A",
       order |-> 1000, deliveries |-> 1,  expected |-> 0],
      [delay |-> 21, impacted |-> <<1, 1>>, vendor |-> "Hosting Provider L",
       order |-> 9999, deliveries |-> 10, expected |-> 5] }

-----------------------------------------------------------------------------
(* generate_revenue_data *)

RevenueId(k) == <<"revenue", Fmt04d(k)>>

RevenueCustomerIdOfIndex(i) == CustomerId(i)

\* the customer_id of the record built by iteration i: f"customer_{i + 1:04d}"
RevenueCustomerId(i) == CustomerId(i + 1)

\* "enterprise" if arr > 200000 else "mid_market" if arr > 50000 else "smb"
RevenueTier(arr) ==
    IF arr > 200000 THEN "enterprise" ELSE IF arr > 50000 THEN "mid_market" ELSE "smb"

Revenue(i, d) ==
    [id                   |-> RevenueId(i + 1),
     customer_id          |-> RevenueCustomerId(i),
     arr                  |-> d.arr,
     arr_at_risk          |-> RoundDiv(d.arr * d.prob_churn, 10),
     probability_of_churn |-> d.prob_churn,
     mrr                  |-> RoundDiv(d.arr * 100, 12),
     contract_end_date    |-> d.contract_days,
     renewal_probability  |-> 1000 - d.prob_churn,
     revenue_tier         |-> RevenueTier(d.arr),
     last_payment_date    |-> 0 - d.payment_days]

GenerateRevenueData(n, draws) == [k \in 1..n |-> Revenue(k - 1, draws[k])]

RevenueDrawSamples ==
    { [arr |-> 10000,  prob_churn |-> 0,    contract_days |-> 30,  payment_days |-> 0],
      [arr |-> 500000, prob_churn |-> 1000, contract_days |-> 730, payment_days |-> 90] }

-----------------------------------------------------------------------------
(* The statements the script executes, in program order *)

ProgramIndexesBeforeInserts ==
    << "get_iam_token",
       "create_database_1", "create_database_2", "create_database_3",
       "generate_customers", "index_customers",
       "generate_procurements", "insert_procurements",
       "generate_revenues", "insert_revenues",
       "insert_customers", "index_procurements", "index_revenues",
       "setup_complete",
       "query_high_churn_customers", "query_delayed_procurements",
       "query_revenue_at_risk",
       "all_done", "exit" >>

\* line 31, then main() (lines 183-210, with create_indexes at 204), then
\* the three queries and the closing prints of lines 361-370
Program ==
    << "get_iam_token",
       "create_database_1", "create_database_2", "create_database_3",
       "generate_customers", "insert_customers",
       "generate_procurements", "insert_procurements",
       "generate_revenues", "insert_revenues",
       "index_customers", "index_procurements", "index_revenues",
       "setup_complete",
       "query_high_churn_customers", "query_delayed_procurements",
       "query_revenue_at_risk",
       "all_done", "exit" >>

IndexOf(seq, x) == CHOOSE k \in 1..Len(seq) : seq[k] = x

ContinueUnlessFailed(p, succeeded) ==
    IF succeeded THEN Program[IndexOf(Program, p) + 1] ELSE p

\* the statement executed after the call at p has returned: every caller
\* discards the return value, so it does not depend on the outcome
Continue(p, succeeded) == Program[IndexOf(Program, p) + 1]

-----------------------------------------------------------------------------
(* Responses of the remote services *)

NoResponse == [status |-> 0, json |-> FALSE, results |-> <<>>, result |-> "", docs |-> 0]

Response(status, json) == [NoResponse EXCEPT !.status = status, !.json = json]

\* answers of the identity service to the token exchange
TokenResponses == {Response(200, TRUE), Response(400, TRUE)}

\* answers of the store to PUT /{db_name}: created when the database is new,
\* already exists when it is there, or a failure that changes nothing
PutResponses(db_name) ==
    (IF db_name \in dbs THEN {Response(412, TRUE)} ELSE {Response(201, TRUE)})
        \cup {Response(429, TRUE), Response(500, FALSE)}

\* the databases of the store after it has given that answer
StoreAfterPut(db_name, resp) == IF resp.status = 201 THEN dbs \cup {db_name} ELSE dbs

\* per-document entries of a _bulk_docs answer
Accepted(doc) == [id |-> doc.id, ok |-> TRUE, rev |-> "1-x"]
Rejected(doc) == [id |-> doc.id, error |-> "conflict", reason |-> "Document update conflict."]

\* answers of the store to POST /{db}/_bulk_docs: one entry per document, each
\* accepted or rejected on its own, under status 201 or 202, or a failure
BulkResponses(documents) ==
    {[Response(st, TRUE) EXCEPT !.results = rs] :
        st \in {201, 202},
        rs \in {r \in [1..Len(documents) -> UNION {{Accepted(documents[k]), Rejected(documents[k])} :
                                                        k \in 1..Len(documents)}] :
                   \A k \in 1..Len(documents) : r[k].id = documents[k].id}}
        \cup {Response(429, TRUE), Response(500, FALSE)}

\* answers of the store to POST /{db}/_index
IndexResponses ==
    {[Response(200, TRUE) EXCEPT !.result = r] : r \in {"created", "exists", ""}}
        \cup {Response(429, TRUE), Response(503, FALSE)}

\* answers of the store to POST /{db}/_find
FindResponses ==
    {[Response(200, TRUE) EXCEPT !.docs = n] : n \in 0..NumRecords}
        \cup {Response(429, TRUE), Response(500, FALSE)}

-----------------------------------------------------------------------------
(* Initial state and the operations *)

Report(kind, db_name, nums) == [kind |-> kind, db |-> db_name, nums |-> nums]

Request(op, db_name) == [op |-> op, db |-> db_name]

Init ==
    /\ pc = "get_iam_token"
    /\ raised = FALSE
    /\ iam_token = "None"
    /\ token_response = NoResponse
    /\ dbs \in SUBSET Range(DatabaseValues)
    /\ requests = <<>>
    /\ response = NoResponse
    /\ report = Report("", "", <<>>)
    /\ ret = "None"
    /\ customers = <<>>
    /\ procurements = <<>>
    /\ revenues = <<>>
    /\ num_records = NumRecords

TokenOkAlways(resp) == TRUE

\* if response.status_code == 200
TokenOk(resp) == resp.status = 200

\* iam_token = get_iam_token(IAM_API_KEY): raises when the exchange fails
GetIamToken ==
    /\ pc = "get_iam_token" /\ ~raised
    /\ \E resp \in TokenResponses :
        /\ response' = resp
        /\ token_response' = resp
        /\ requests' = Append(requests, Request("token", "iam"))
        /\ IF TokenOk(resp)
             THEN /\ iam_token' = "access_token"
                  /\ pc' = Continue(pc, TRUE)
                  /\ UNCHANGED <<raised, report>>
             ELSE /\ raised' = TRUE
                  /\ report' = Report("Failed to get IAM token", "", <<>>)
                  /\ UNCHANGED <<pc, iam_token>>
    /\ UNCHANGED <<dbs, ret, customers, procurements, revenues, num_records>>

CreateDatabaseReturnCreatedOnly(resp) == resp.status = 201

\* return response.status_code in [201, 412]
CreateDatabaseReturn(resp) == resp.status \in {201, 412}

\* the print of create_database
CreateDatabaseReport(db_name, resp) ==
    IF resp.status = 201 THEN Report("created successfully", db_name, <<>>)
    ELSE IF resp.status = 412 THEN Report("already exists", db_name, <<>>)
    ELSE Report("Error creating", db_name, <<>>)

\* create_database(db_name)
create_database(db_name) ==
    \E resp \in PutResponses(db_name) :
        /\ requests' = Append(requests, Request("create", db_name))
        /\ response' = resp
        /\ dbs' = StoreAfterPut(db_name, resp)
        /\ report' = CreateDatabaseReport(db_name, resp)
        /\ ret' = IF CreateDatabaseReturn(resp) THEN "True" ELSE "False"

\* for db_name in DATABASES.values(): create_database(db_name)
CreateDatabaseStep(k) ==
    /\ pc = <<"create_database_1", "create_database_2", "create_database_3">>[k]
    /\ ~raised
    /\ create_database(DatabaseValues[k])
    /\ pc' = Continue(pc, ret' = "True")
    /\ UNCHANGED <<raised, iam_token, token_response, customers, procurements, revenues, num_records>>

\* customers = generate_customer_data(500)
GenerateCustomers ==
    /\ pc = "generate_customers" /\ ~raised
    /\ \E draws \in [1..num_records -> CustomerDrawSamples] :
          customers' = GenerateCustomerData(num_records, draws)
    /\ report' = Report("Generating Customer data", "", <<>>)
    /\ pc' = Continue(pc, TRUE)
    /\ UNCHANGED <<raised, iam_token, token_response, dbs, requests, response, ret,
                   procurements, revenues, num_records>>

\* procurements = generate_procurement_data(500)
GenerateProcurements ==
    /\ pc = "generate_procurements" /\ ~raised
    /\ \E draws \in [1..num_records -> ProcurementDrawSamples] :
       \E lists \in [1..num_records -> ImpactLists] :
          /\ \A k \in 1..num_records :
                lists[k] \in ListOfSet(ImpactedCustomers(draws[k].impacted))
          /\ procurements' = GenerateProcurementData(num_records, draws, lists)
    /\ report' = Report("Generating Procurement data", "", <<>>)
    /\ pc' = Continue(pc, TRUE)
    /\ UNCHANGED <<raised, iam_token, token_response, dbs, requests, response, ret,
                   customers, revenues, num_records>>

\* revenues = generate_revenue_data(500)
GenerateRevenues ==
    /\ pc = "generate_revenues" /\ ~raised
    /\ \E draws \in [1..num_records -> RevenueDrawSamples] :
          revenues' = GenerateRevenueData(num_records, draws)
    /\ report' = Report("Generating Revenue data", "", <<>>)
    /\ pc' = Continue(pc, TRUE)
    /\ UNCHANGED <<raised, iam_token, token_response, dbs, requests, response, ret,
                   customers, procurements, num_records>>

RECURSIVE SuccessCountUntilFirstError(_)
SuccessCountUntilFirstError(results) ==
    IF results = <<>> \/ ~("ok" \in DOMAIN Head(results)) THEN 0
    ELSE 1 + SuccessCountUntilFirstError(Tail(results))

\* sum(1 for r in results if 'ok' in r and r['ok'])
SuccessCount(results) ==
    Cardinality({k \in 1..Len(results) :
                    "ok" \in DOMAIN results[k] /\ results[k].ok})

BulkInsertOkAny2xx(resp) == resp.status \in 200..299

\* if response.status_code == 201
BulkInsertOk(resp) == resp.status = 201

\* bulk_insert_documents(db_name, documents)
bulk_insert_documents(db_name, documents) ==
    \E resp \in BulkResponses(documents) :
        /\ requests' = Append(requests, Request("bulk_insert", db_name))
        /\ response' = resp
        /\ IF BulkInsertOk(resp)
             THEN /\ report' = Report("Inserted", db_name,
                                      <<SuccessCount(resp.results), Len(documents)>>)
                  /\ ret' = "True"
             ELSE /\ report' = Report("Error inserting documents", db_name, <<>>)
                  /\ ret' = "False"

\* the three bulk_insert_documents calls of main()
InsertStep(k) ==
    /\ pc = <<"insert_customers", "insert_procurements", "insert_revenues">>[k]
    /\ ~raised
    /\ bulk_insert_documents(DatabaseValues[k], <<customers, procurements, revenues>>[k])
    /\ pc' = Continue(pc, ret' = "True")
    /\ UNCHANGED <<raised, iam_token, token_response, dbs, customers, procurements, revenues, num_records>>

\* the name each block of create_indexes prints
IndexLabels == <<"Customer index", "Procurement index", "Revenue index">>

\* one block of create_indexes: post the index, print the outcome, sleep.
\* The failure branch prints response.json(), which raises when the body of
\* the failure answer is not JSON.
CreateIndexStep(k) ==
    /\ pc = <<"index_customers", "index_procurements", "index_revenues">>[k]
    /\ ~raised
    /\ \E resp \in IndexResponses :
        /\ requests' = Append(requests, Request("index", DatabaseValues[k]))
        /\ response' = resp
        /\ IF resp.status = 200
             THEN /\ report' = Report(IndexLabels[k], DatabaseValues[k],
                                      <<IF resp.result = "" THEN "created" ELSE resp.result>>)
                  /\ pc' = Continue(pc, TRUE)
                  /\ UNCHANGED raised
             ELSE IF resp.json
             THEN /\ report' = Report(IndexLabels[k], DatabaseValues[k], <<"error">>)
                  /\ pc' = Continue(pc, FALSE)
                  /\ UNCHANGED raised
             ELSE /\ raised' = TRUE
                  /\ report' = Report("JSONDecodeError", DatabaseValues[k], <<>>)
                  /\ UNCHANGED pc
    /\ UNCHANGED <<iam_token, token_response, dbs, ret, customers, procurements, revenues, num_records>>

\* the closing prints of main()
SetupComplete ==
    /\ pc = "setup_complete" /\ ~raised
    /\ report' = Report("Setup Complete", "",
                        <<Len(customers), Len(procurements), Len(revenues)>>)
    /\ pc' = Continue(pc, TRUE)
    /\ UNCHANGED <<raised, iam_token, token_response, dbs, requests, response, ret,
                   customers, procurements, revenues, num_records>>

\* query_high_churn_customers / query_delayed_procurements /
\* query_revenue_at_risk, each followed by the sleep of the main block
QueryStep(k) ==
    /\ pc = <<"query_high_churn_customers", "query_delayed_procurements",
              "query_revenue_at_risk">>[k]
    /\ ~raised
    /\ \E resp \in FindResponses :
        /\ requests' = Append(requests, Request("find", DatabaseValues[k]))
        /\ response' = resp
        /\ report' = IF resp.status = 200
                       THEN Report("Top 10", DatabaseValues[k], <<resp.docs>>)
                       ELSE Report("Query error", DatabaseValues[k], <<>>)
        /\ pc' = Continue(pc, resp.status = 200)
    /\ UNCHANGED <<raised, iam_token, token_response, dbs, ret, customers, procurements, revenues,
                   num_records>>

\* the two closing prints of the main block
AllDone ==
    /\ pc = "all_done" /\ ~raised
    /\ report' = Report("All done", "", <<>>)
    /\ pc' = Continue(pc, TRUE)
    /\ UNCHANGED <<raised, iam_token, token_response, dbs, requests, response, ret,
                   customers, procurements, revenues, num_records>>

Next ==
    \/ GetIamToken
    \/ \E k \in 1..3 : CreateDatabaseStep(k)
    \/ GenerateCustomers
    \/ GenerateProcurements
    \/ GenerateRevenues
    \/ \E k \in 1..3 : InsertStep(k)
    \/ \E k \in 1..3 : CreateIndexStep(k)
    \/ SetupComplete
    \/ \E k \in 1..3 : QueryStep(k)
    \/ AllDone

Spec == Init /\ [][Next]_vars

-----------------------------------------------------------------------------
(* create_database called repeatedly, as the loop of main() does, for any    *)
(* sequence of database names                                                *)

InitEnsure ==
    /\ pc = "call"
    /\ raised = FALSE
    /\ iam_token = "access_token"
    /\ token_response = Response(200, TRUE)
    /\ dbs \in SUBSET Range(DatabaseValues)
    /\ requests = <<>>
    /\ response = NoResponse
    /\ report = Report("", "", <<>>)
    /\ ret = "None"
    /\ customers = <<>>
    /\ procurements = <<>>
    /\ revenues = <<>>
    /\ num_records = 0

\* one more create_database(db_name) after the calls made so far
EnsureCall(db_name) ==
    /\ ~raised
    /\ Len(requests) < MaxCalls
    /\ create_database(db_name)
    /\ UNCHANGED <<pc, raised, iam_token, token_response, customers, procurements,
                   revenues, num_records>>

NextEnsure == \E db_name \in Range(DatabaseValues) : EnsureCall(db_name)

SpecEnsure == InitEnsure /\ [][NextEnsure]_vars

-----------------------------------------------------------------------------
(* generate_customer_data(1) for every value the record can draw             *)

CustomerDraws ==
    [usage_drop : UsageDropRange, sentiment : SentimentRange, tickets : TicketRange,
     arr : {10000, 500000}, name : {"Acme Corp"}]

InitGenerator ==
    /\ pc = "call"
    /\ raised = FALSE
    /\ iam_token = "access_token"
    /\ token_response = Response(200, TRUE)
    /\ dbs = {}
    /\ requests = <<>>
    /\ response = NoResponse
    /\ report = Report("", "", <<>>)
    /\ ret = "None"
    /\ customers = <<>>
    /\ procurements = <<>>
    /\ revenues = <<>>

InitCustomer == InitGenerator /\ num_records = 1

CallGenerateCustomer ==
    /\ pc = "call"
    /\ \E draws \in [1..num_records -> CustomerDraws] :
          customers' = GenerateCustomerData(num_records, draws)
    /\ pc' = "returned"
    /\ UNCHANGED <<raised, iam_token, token_response, dbs, requests, response, report,
                   ret, procurements, revenues, num_records>>

SpecCustomer == InitCustomer /\ [][CallGenerateCustomer]_vars

-----------------------------------------------------------------------------
(* generate_procurement_data(1) for every delay the record can draw          *)

InitProcurement == InitGenerator /\ num_records = 1

CallGenerateProcurement ==
    /\ pc = "call"
    /\ \E draws \in [1..num_records -> ProcurementDraws(DelayRange)] :
       \E lists \in [1..num_records -> ImpactLists] :
          /\ \A k \in 1..num_records :
                lists[k] \in ListOfSet(ImpactedCustomers(draws[k].impacted))
          /\ procurements' = GenerateProcurementData(num_records, draws, lists)
    /\ pc' = "returned"
    /\ UNCHANGED <<raised, iam_token, token_response, dbs, requests, response, report,
                   ret, customers, revenues, num_records>>

SpecProcurement == InitProcurement /\ [][CallGenerateProcurement]_vars

-----------------------------------------------------------------------------
(* generate_customer_data(n) followed by generate_revenue_data(n), for every *)
(* count n up to MaxCount                                                    *)

InitIds == InitGenerator /\ num_records \in 0..MaxCount

CallGenerateCustomers ==
    /\ pc = "call"
    /\ \E draws \in [1..num_records -> CustomerDrawSamples] :
          customers' = GenerateCustomerData(num_records, draws)
    /\ pc' = "call_revenue"
    /\ UNCHANGED <<raised, iam_token, token_response, dbs, requests, response, report,
                   ret, procurements, revenues, num_records>>

CallGenerateRevenues ==
    /\ pc = "call_revenue"
    /\ \E draws \in [1..num_records -> RevenueDrawSamples] :
          revenues' = GenerateRevenueData(num_records, draws)
    /\ pc' = "returned"
    /\ UNCHANGED <<raised, iam_token, token_response, dbs, requests, response, report,
                   ret, customers, procurements, num_records>>

NextIds == CallGenerateCustomers \/ CallGenerateRevenues

SpecIds == InitIds /\ [][NextIds]_vars

-----------------------------------------------------------------------------
(* Properties *)

LastRequest == requests[Len(requests)]

LastOpIs(op) == requests # <<>> /\ LastRequest.op = op

\* the last request was a bulk insert and nothing was printed since it returned
AfterBulkInsert == LastOpIs("bulk_insert") /\ report.db = LastRequest.db

CountOp(op) == Cardinality({k \in 1..Len(requests) : requests[k].op = op})

\* the stages of a run, numbered: 0 unauthenticated, 1 authenticated,
\* 2 collections-ensured, 3 data-loaded, 4 indexed, 5 queried, 6 done
StageNum(p) ==
    IF p = "get_iam_token" THEN 0
    ELSE IF p \in {"create_database_1", "create_database_2", "create_database_3"} THEN 1
    ELSE IF p \in {"generate_customers", "insert_customers", "generate_procurements",
                   "insert_procurements", "generate_revenues", "insert_revenues"} THEN 2
    ELSE IF p \in {"index_customers", "index_procurements", "index_revenues"} THEN 3
    ELSE IF p \in {"setup_complete", "query_high_churn_customers",
                   "query_delayed_procurements", "query_revenue_at_risk"} THEN 4
    ELSE IF p = "all_done" THEN 5
    ELSE 6

\* the stage whose requests an operation belongs to
Rank(op) ==
    IF op = "token" THEN 0
    ELSE IF op = "create" THEN 1
    ELSE IF op = "bulk_insert" THEN 2
    ELSE IF op = "index" THEN 3
    ELSE 4

OpOfRank(r) == <<"token", "create", "bulk_insert", "index", "find">>[r + 1]

\* how many requests each stage issues
GroupSize(r) == IF r = 0 THEN 1 ELSE 3

\* the thirteen remote operations of a complete run
AllRequests ==
    {Request("token", "iam")}
        \cup {Request(op, db) : op \in {"create", "bulk_insert", "index", "find"},
                                db \in Range(DatabaseValues)}

\* C1: once authentication has succeeded, whatever the store answers to the
\* creates, inserts, index declarations and queries, the run never aborts
C1_LogAndContinue == iam_token = "access_token" => ~raised

\* C2: when the token exchange does not return success the process raises and
\* stops: the token request is the only request of the run and the run stays
\* in the unauthenticated stage
C2_AuthFailureIsFatal ==
    token_response.status \notin {0, 200} =>
        /\ raised
        /\ iam_token = "None"
        /\ StageNum(pc) = 0
        /\ requests = <<Request("token", "iam")>>

C2_Witness ==
    token_response.status = 400 /\ raised /\ Len(requests) = 1

\* the requests issued so far are ordered by stage, a stage's request is only
\* issued after all requests of the stage before, and the run is in stage s
\* only if the requests of all stages before s were issued
C3_Order ==
    /\ \A a, b \in 1..Len(requests) :
          a < b => Rank(requests[a].op) <= Rank(requests[b].op)
    /\ \A b \in 1..Len(requests) :
          Rank(requests[b].op) > 0 =>
              Cardinality({a \in 1..(b - 1) :
                              Rank(requests[a].op) = Rank(requests[b].op) - 1})
                  = GroupSize(Rank(requests[b].op) - 1)
    /\ \A r \in 0..4 :
          StageNum(pc) > r => CountOp(OpOfRank(r)) = GroupSize(r)
    /\ \A r \in 0..4 :
          CountOp(OpOfRank(r)) > 0 => StageNum(pc) >= r

C3_StageStep == StageNum(pc') \in {StageNum(pc), StageNum(pc) + 1}

\* C3: the stages of a run occur in the linear order unauthenticated,
\* authenticated, collections-ensured, data-loaded, indexed, queried, done,
\* one after the other, and no request of a stage is issued before all
\* requests of the stage before it
C3_LinearOrder == [](C3_Order) /\ [][C3_StageStep]_vars

C3_Witness ==
    pc = "exit" /\ Len(requests) = 13 /\ LastRequest = Request("find", DATABASES.revenue)

\* the documents handed to the last bulk insert
LastDocuments ==
    IF LastRequest.db = DATABASES.customers THEN customers
    ELSE IF LastRequest.db = DATABASES.procurement THEN procurements
    ELSE revenues

\* number of rejection entries of a _bulk_docs answer
Rejections(results) ==
    Cardinality({k \in 1..Len(results) : "error" \in DOMAIN results[k]})

C5_FailureIffNon2xx ==
    AfterBulkInsert =>
        (ret = "False" <=> response.status \notin 200..299)

\* C5, amended: bulk insert returns success exactly when the status of the
\* answer is 201, and then it has reported the count of the per-document
\* entries; every other status, 2xx or not, is reported as an error and
\* returns failure
C5_SuccessIff201 ==
    AfterBulkInsert =>
        /\ ret \in {"True", "False"}
        /\ ret = "True" <=> response.status = 201
        /\ ret = "True" <=> report.kind = "Inserted"
        /\ ret = "False" <=> report.kind = "Error inserting documents"

C5_Witness ==
    AfterBulkInsert /\ response.status = 202 /\ ret = "False"

\* value of a sequence of decimal digits
RECURSIVE DigitsValue(_)
DigitsValue(ds) ==
    IF ds = <<>> THEN 0
    ELSE 10 * DigitsValue(SubSeq(ds, 1, Len(ds) - 1)) + ds[Len(ds)]

\* id is the prefix followed by the number k written with 4 digits
IsPaddedId(id, prefix, k) ==
    /\ id[1] = prefix
    /\ Len(id[2]) = 4
    /\ \A j \in 1..4 : id[2][j] \in 0..9
    /\ DigitsValue(id[2]) = k

\* C6: generate_customer_data(n) returns n records with the pairwise distinct
\* identifiers customer_0001 .. customer_<n>; generate_revenue_data(n) returns
\* n records with pairwise distinct identifiers, the i-th of which references
\* the i-th customer, so that every customer is referenced exactly once
C6_Identifiers ==
    /\ pc \in {"call_revenue", "returned"} =>
          /\ Len(customers) = num_records
          /\ \A k \in 1..Len(customers) : IsPaddedId(customers[k].id, "customer", k)
          /\ \A a, b \in 1..Len(customers) :
                a # b => customers[a].id # customers[b].id
    /\ pc = "returned" =>
          /\ Len(revenues) = num_records
          /\ \A k \in 1..Len(revenues) :
                /\ IsPaddedId(revenues[k].id, "revenue", k)
                /\ revenues[k].customer_id = customers[k].id
          /\ \A a, b \in 1..Len(revenues) :
                a # b => revenues[a].id # revenues[b].id
          /\ \A k \in 1..Len(customers) :
                Cardinality({j \in 1..Len(revenues) :
                                revenues[j].customer_id = customers[k].id}) = 1

C6_Witness ==
    pc = "returned" /\ num_records = MaxCount /\ Len(revenues) = MaxCount

\* C7: the churn score of every generated customer lies in [0, 1] and the
\* account status is "at_risk" exactly when the churn score is at least 0.7,
\* "active" otherwise
C7_ChurnStatus ==
    \A k \in 1..Len(customers) :
        /\ customers[k].usage_drop \in UsageDropRange
        /\ customers[k].sentiment_score \in SentimentRange
        /\ customers[k].ticket_volume \in TicketRange
        /\ customers[k].churn_score \in 0..1000
        /\ customers[k].account_status \in {"active", "at_risk"}
        /\ customers[k].account_status = "at_risk" <=> customers[k].churn_score >= 700

C7_Witness ==
    /\ customers # <<>>
    /\ customers[1].churn_score = 700
    /\ customers[1].account_status = "at_risk"

\* C8: the status of every generated procurement is "delayed" exactly when
\* delay_days > 7, "on_time" otherwise; the severity is "high" exactly when
\* delay_days > 20, "medium" when 7 < delay_days <= 20, "low" when
\* delay_days <= 7; so the status is "on_time" exactly when the severity is
\* "low"
C8_StatusSeverity ==
    \A k \in 1..Len(procurements) :
        LET p == procurements[k] IN
        /\ p.delay_days \in DelayRange
        /\ p.status \in {"delayed", "on_time"}
        /\ p.impact_severity \in {"high", "medium", "low"}
        /\ p.status = "delayed" <=> p.delay_days > 7
        /\ p.impact_severity = "high" <=> p.delay_days > 20
        /\ p.impact_severity = "medium" <=> (7 < p.delay_days /\ p.delay_days <= 20)
        /\ p.impact_severity = "low" <=> p.delay_days <= 7
        /\ p.status = "on_time" <=> p.impact_severity = "low"

C8_Witness ==
    /\ procurements # <<>>
    /\ procurements[1].delay_days = 7
    /\ procurements[1].status = "on_time"
    /\ procurements[1].impact_severity = "low"

\* after a call of create_database: success exactly for the answers created
\* and already exists, with the database then in the store; failure, without
\* an exception, for every other answer
C9_Returns ==
    LastOpIs("create") =>
        /\ ~raised
        /\ ret \in {"True", "False"}
        /\ response.status \in {201, 412} => (ret = "True" /\ LastRequest.db \in dbs)
        /\ response.status \notin {201, 412} => ret = "False"

\* a call of create_database for a database the store already holds, answered
\* other than by a failure, returns success and leaves the store as it was;
\* no call removes a database from the store
C9_Keeps ==
    /\ \A db \in Range(DatabaseValues) : db \in dbs => db \in dbs'
    /\ (requests' # requests /\ requests'[Len(requests')].db \in dbs
            /\ response'.status \notin {429, 500})
          => (response'.status = 412 /\ ret' = "True" /\ dbs' = dbs)

\* C9: create_database is an idempotent create: it returns success for the
\* answers created and already exists, however often it is called for a
\* name, and the database exists afterwards; any other answer is reported as
\* failure without raising, and the caller goes on
C9_IdempotentCreate == [](C9_Returns) /\ [][C9_Keeps]_vars

C9_Witness ==
    /\ Len(requests) = MaxCalls
    /\ \A k \in 1..Len(requests) : requests[k] = Request("create", DATABASES.customers)
    /\ response.status = 412
    /\ ret = "True"

\* C10: no remote operation is issued twice in a run, whether it succeeded or
\* failed, and a run that is done has issued each of the thirteen exactly once
C10_NoRetry ==
    /\ NoDuplicates(requests)
    /\ Range(requests) \subseteq AllRequests
    /\ pc = "exit" => (Range(requests) = AllRequests /\ Len(requests) = 13)

C10_Witness ==
    pc = "exit" /\ response.status = 429 /\ Len(requests) = 13

====
